---- MODULE Spec2Model ----
(***************************************************************************)
(* A model of the Orbit assistant's persistent state:                      *)
(*   - the user_profiles row of one user and the profile_history table,    *)
(*     as read and written by database/operations.py, by the agent's       *)
(*     update_profile tool, by scripts/test_profile_concurrency.py and by  *)
(*     the onboarding quiz;                                                *)
(*   - the checkpoints table as read and written by                        *)
(*     database/supabase_checkpointer.py;                                  *)
(*   - one turn of the conversation graph of agent/orbit_agent.py on a     *)
(*     thread stored in that table.                                        *)
(***************************************************************************)
EXTENDS Integers, Sequences, FiniteSets, TLC

(***************************************************************************)
(* Bounds of the model.                                                    *)
(***************************************************************************)
NumCallers == 3
MaxInitVersion == 2
MaxCheckpointId == 2
MaxPuts == 2
MaxToolCalls == 2
MaxToolRounds == 1

(***************************************************************************)
(* Program constants.                                                      *)
(***************************************************************************)
max_retries_4 == 3 + 1
max_retries_2 == 3 - 1
max_retries == 3
PRUNE_COUNT_29 == 30 - 1
PRUNE_COUNT == 30
SummarizeThreshold == 75

Callers == 1..NumCallers

VARIABLES
    user_profiles,    \* the user's row of table user_profiles (present, doc, version)
    profile_history,  \* the rows of table profile_history, oldest first
    quiz_completed,   \* users.quiz_completed of the user
    pc,               \* per caller: "idle", "read", "write", "done"
    kind,             \* per caller: "none", "cas" (read then one update), "append" (update_profile tool)
    cur,              \* per caller: the (doc, version) its last get_user_profile returned
    attempt,          \* per caller: the loop index of update_profile
    success,          \* per caller: what its last update_user_document returned
    result,           \* per caller: what the call returned
    reads,            \* per caller: get_user_profile calls made
    writes,           \* per caller: update_user_document calls made
    startVersion,     \* per caller: the stored version when the call started
    wins,             \* the successful updates: caller, expected version, version stored
    initial,          \* the row at the start
    checkpoints,      \* the rows of table checkpoints
    ckCall,           \* the last call on the checkpointer: operation and arguments
    ckRet,            \* what that call returned
    written,          \* per stored key, the checkpoint and metadata objects last given to aput
    nPuts,            \* aput calls made
    node,             \* the turn's position in the graph: the node to run next
    messages,         \* the "messages" channel of the running turn
    checkpoint_config,\* the config the runtime hands to the next aput
    loaded,           \* what aget_tuple returned when the turn started
    latestAtStart,    \* the thread's stored rows with the highest id when the turn started
    puts,             \* the ids of the checkpoints the turn has handed to aput, in order
    step,             \* the step number of the turn's next checkpoint
    rounds,           \* runs of the tools node in this turn
    passes,           \* runs of _summarize_conversation completed in this turn
    sm,               \* _summarize_conversation: its position and local variables
    given_writes,     \* the (task id, writes) pairs handed to aput_writes
    pending_writes,   \* the pending writes the checkpointer holds
    run_result,       \* what OrbitAgent.run returned or raised
    checkpoints_up,   \* whether the queries on table checkpoints answer
    tool_runs,        \* the tools node: the tool calls started and those finished
    prompt,           \* the messages last passed to the model by _call_model
    timezone_read,    \* what the users query of the last get_user_timezone did
    concurrent_turn   \* a second run on the same thread: its stage, config, channel and puts

ckptVars == <<checkpoints, ckCall, ckRet, written, nPuts>>

turnVars == <<node, messages, checkpoint_config, loaded, latestAtStart, puts, step, rounds,
              passes, sm, given_writes, pending_writes, run_result, checkpoints_up,
              tool_runs, prompt, timezone_read, concurrent_turn>>

turnEnv == <<checkpoints_up, tool_runs, prompt, timezone_read, concurrent_turn>>

profileVars == <<user_profiles, profile_history, quiz_completed, pc, kind, cur, attempt,
                 success, result, reads, writes, startVersion, wins, initial>>

(***************************************************************************)
(* Document texts are sequences of tokens.                                 *)
(***************************************************************************)
DefaultText == <<"New user. No preferences learned yet.">>
InitialDoc == <<"Initial Doc">>
Sep == "\n- "
Fact(p) == "fact " \o ToString(p)
WriterDoc(p) == <<"Updated by " \o ToString(p)>>
QuizDocs == {<<"quiz profile">>, <<"Error generating profile. Please update manually.">>}

NoRow == [present |-> FALSE, doc |-> <<>>, version |-> 0]
Row(d, v) == [present |-> TRUE, doc |-> d, version |-> v]

\* str() of what get_user_profile returned: a dict renders as its repr
Str(d) == IF d.isDict THEN <<"{'summary': '">> \o d.text \o <<"'}">> ELSE d.text

\* get_user_profile: no row gives a dict holding the default text and version 0
get_user_profile(row) ==
    IF ~row.present
    THEN [doc |-> [isDict |-> TRUE, text |-> DefaultText], version |-> 0]
    ELSE [doc |-> [isDict |-> FALSE,
                   text |-> IF row.doc = <<>> THEN DefaultText ELSE row.doc],
          version |-> row.version]

\* the rows the conditional update of update_user_document matches
MatchesAnyVersion(row, expected_version) == row.present
Matches(row, expected_version) == row.present /\ row.version = expected_version

\* the version update_user_document stores
next_version_same(expected_version) == expected_version
next_version(expected_version) == expected_version + 1

\* the document update_profile writes from what it read
new_doc_fact_only(current_doc, fact) == <<Sep, fact>>
new_doc(current_doc, fact) == Str(current_doc) \o <<Sep, fact>>

StoredVersion == IF user_profiles.present THEN user_profiles.version ELSE 0

ProfileInit ==
    /\ user_profiles \in
           {Row(d, v) : d \in {InitialDoc, <<>>}, v \in 1..MaxInitVersion} \cup {NoRow}
    /\ initial = user_profiles
    /\ profile_history = <<>>
    /\ quiz_completed = FALSE
    /\ pc = [p \in Callers |-> "idle"]
    /\ kind = [p \in Callers |-> "none"]
    /\ cur = [p \in Callers |-> [doc |-> [isDict |-> FALSE, text |-> <<>>], version |-> 0]]
    /\ attempt = [p \in Callers |-> 0]
    /\ success = [p \in Callers |-> FALSE]
    /\ result = [p \in Callers |-> "none"]
    /\ reads = [p \in Callers |-> 0]
    /\ writes = [p \in Callers |-> 0]
    /\ startVersion = [p \in Callers |-> 0]
    /\ wins = {}

\* a caller starts simulate_update ("cas") or the update_profile tool ("append")
Call(p) ==
    /\ pc[p] = "idle"
    /\ \E k \in {"cas", "append"} : kind' = [kind EXCEPT ![p] = k]
    /\ pc' = [pc EXCEPT ![p] = "read"]
    /\ startVersion' = [startVersion EXCEPT ![p] = StoredVersion]
    /\ UNCHANGED <<user_profiles, profile_history, quiz_completed, cur, attempt, success,
                   result, reads, writes, wins, initial>>
    /\ UNCHANGED <<ckptVars, turnVars>>

\* get_user_profile answers
Read(p) ==
    /\ pc[p] = "read"
    /\ cur' = [cur EXCEPT ![p] = get_user_profile(user_profiles)]
    /\ reads' = [reads EXCEPT ![p] = @ + 1]
    /\ pc' = [pc EXCEPT ![p] = "write"]
    /\ UNCHANGED <<user_profiles, profile_history, quiz_completed, kind, attempt, success,
                   result, writes, startVersion, wins, initial>>
    /\ UNCHANGED <<ckptVars, turnVars>>

\* the document a caller passes to update_user_document
DocToWrite(p) == IF kind[p] = "append" THEN new_doc(cur[p].doc, Fact(p)) ELSE WriterDoc(p)
ReasonOf(p) == IF kind[p] = "append" THEN "Agent Tool Update" ELSE "Test update"

\* what the caller does with the value update_user_document returned
AfterUpdate(p, ok) ==
    /\ success' = [success EXCEPT ![p] = ok]
    /\ writes' = [writes EXCEPT ![p] = @ + 1]
    /\ IF kind[p] = "cas"
       THEN /\ pc' = [pc EXCEPT ![p] = "done"]
            /\ result' = [result EXCEPT ![p] = IF ok THEN "true" ELSE "false"]
            /\ attempt' = attempt
       ELSE IF ok
       THEN /\ pc' = [pc EXCEPT ![p] = "done"]
            /\ result' = [result EXCEPT ![p] = "success"]
            /\ attempt' = attempt
       ELSE IF attempt[p] + 1 < max_retries
       THEN /\ pc' = [pc EXCEPT ![p] = "read"]
            /\ attempt' = [attempt EXCEPT ![p] = @ + 1]
            /\ result' = result
       ELSE /\ pc' = [pc EXCEPT ![p] = "done"]
            /\ attempt' = [attempt EXCEPT ![p] = @ + 1]
            /\ result' = [result EXCEPT ![p] = "contention"]

\* update_user_document answers; historyOk: whether the profile_history insert worked
UpdateDocument(p, historyOk) ==
    LET expected_version == cur[p].version
        doc == DocToWrite(p)
        ok == Matches(user_profiles, expected_version)
    IN  /\ pc[p] = "write"
        /\ IF ok
           THEN /\ user_profiles' = Row(doc, next_version(expected_version))
                /\ profile_history' =
                       IF historyOk
                       THEN Append(profile_history,
                                   [new_document |-> doc, change_reason |-> ReasonOf(p)])
                       ELSE profile_history
                /\ wins' = wins \cup {[caller |-> p, expected |-> expected_version,
                                       stored |-> user_profiles'.version]}
           ELSE UNCHANGED <<user_profiles, profile_history, wins>>
        /\ AfterUpdate(p, ok)
        /\ UNCHANGED <<quiz_completed, kind, cur, reads, startVersion, initial>>
        /\ UNCHANGED <<ckptVars, turnVars>>

Update(p) == UpdateDocument(p, TRUE)

\* the profile_history insert raises: logged, the update stands
UpdateHistoryRollsBack(p) ==
    /\ pc[p] = "write"
    /\ Matches(user_profiles, cur[p].version)
    /\ AfterUpdate(p, FALSE)
    /\ UNCHANGED <<user_profiles, profile_history, wins, quiz_completed, kind, cur, reads,
                   startVersion, initial>>
    /\ UNCHANGED <<ckptVars, turnVars>>
UpdateHistoryFails(p) == Matches(user_profiles, cur[p].version) /\ UpdateDocument(p, FALSE)

\* a store call raises: update_profile returns its error text, simulate_update raises
StoreRaises(p) ==
    /\ pc[p] \in {"read", "write"}
    /\ pc' = [pc EXCEPT ![p] = "done"]
    /\ result' = [result EXCEPT ![p] = IF kind[p] = "append" THEN "error" ELSE "raised"]
    /\ UNCHANGED <<user_profiles, profile_history, quiz_completed, kind, cur, attempt,
                   success, reads, writes, startVersion, wins, initial>>
    /\ UNCHANGED <<ckptVars, turnVars>>

\* QuizManager.complete_quiz: upsert of the profile row at version 1
CompleteQuiz ==
    /\ ~quiz_completed
    /\ \E profile_text \in QuizDocs : user_profiles' = Row(profile_text, 1)
    /\ quiz_completed' = TRUE
    /\ UNCHANGED <<profile_history, pc, kind, cur, attempt, success, result, reads, writes,
                   startVersion, wins, initial>>
    /\ UNCHANGED <<ckptVars, turnVars>>

(***************************************************************************)
(* The checkpointer (database/supabase_checkpointer.py).                   *)
(*                                                                         *)
(* Checkpoint ids are fixed-width, time-ordered strings; an id is modelled *)
(* by its rank, and None (no checkpoint_id in the config, no parent) by 0. *)
(* A config is its "configurable" dict; an absent checkpoint_ns is "".     *)
(***************************************************************************)
\* the (thread_id, checkpoint_ns) pairs in use
Keys == {<<"u1", "">>, <<"u1", "sub">>, <<"u2", "">>}
NoId == 0
CheckpointIds == 1..MaxCheckpointId
None == [none |-> TRUE]
TypeError == [error |-> "TypeError"]

\* the objects handed to aput: a Checkpoint (id, channel_values.messages) and its metadata
Messages == {[type |-> "human", content |-> "hi"], [type |-> "ai", content |-> "hello"]}
Histories == {<<>>, <<[type |-> "human", content |-> "hi"]>>}
Checkpoints == {[id |-> i, messages |-> h] : i \in CheckpointIds, h \in Histories}
Metadatas == {[source |-> "input", step |-> 0], [source |-> "loop", step |-> 1]}
\* a step's snapshot: the input step saves the empty history, a loop step a grown one
MetadataOf(h) == IF h = <<>> THEN [source |-> "input", step |-> 0]
                 ELSE [source |-> "loop", step |-> 1]
Configs == {[thread_id |-> k[1], checkpoint_ns |-> k[2], checkpoint_id |-> i] :
                k \in Keys, i \in {NoId} \cup CheckpointIds}

\* JsonPlusSerializer: a message object becomes a constructor dict and back
EncodeMessage(m) ==
    [lc |-> 1, type |-> "constructor", id |-> m.type,
     kwargs |-> [f \in DOMAIN m \ {"type"} |-> m[f]]]
ReviveMessage(j) ==
    [f \in DOMAIN j.kwargs \cup {"type"} |-> IF f = "type" THEN j.id ELSE j.kwargs[f]]
EncodeCheckpoint(c) ==
    [id |-> c.id, messages |-> [k \in 1..Len(c.messages) |-> EncodeMessage(c.messages[k])]]
ReviveCheckpoint(j) ==
    [id |-> j.id, messages |-> [k \in 1..Len(j.messages) |-> ReviveMessage(j.messages[k])]]
EncodeMetadata(m) == [source |-> m.source, step |-> m.step]
ReviveMetadata(j) == [source |-> j.source, step |-> j.step]

\* bytes, str and parsed JSON are kept apart: each conversion accepts only its own input
IsBytes(x) == DOMAIN x = {"bytes"}
IsStr(x) == DOMAIN x = {"str"}
decode(b) == [str |-> b.bytes]
encode(t) == [bytes |-> t.str]
json_loads(t) == t.str
json_dumps(j) == [str |-> j]
dumps_checkpoint(c) == [bytes |-> EncodeCheckpoint(c)]
dumps_metadata(m) == [bytes |-> EncodeMetadata(m)]
loads_checkpoint(b) == IF IsBytes(b) THEN ReviveCheckpoint(b.bytes) ELSE TypeError
loads_metadata(b) == IF IsBytes(b) THEN ReviveMetadata(b.bytes) ELSE TypeError

\* the key of table checkpoints that upsert resolves conflicts on
PrimaryKey(r) == <<r.thread_id, r.checkpoint_ns, r.checkpoint_id>>

insert(table, data) == table \cup {data}
upsert(table, data) == {r \in table : PrimaryKey(r) # PrimaryKey(data)} \cup {data}

\* the row aput builds
PutData(config, checkpoint, metadata) ==
    [thread_id |-> config.thread_id,
     checkpoint_ns |-> config.checkpoint_ns,
     checkpoint_id |-> checkpoint.id,
     parent_checkpoint_id |-> config.checkpoint_id,
     checkpoint |-> json_loads(decode(dumps_checkpoint(checkpoint))),
     metadata |-> json_loads(decode(dumps_metadata(metadata)))]

\* select * where thread_id = .. and checkpoint_ns = ..
SelectAnyNamespace(table, thread_id, checkpoint_ns) ==
    {r \in table : r.thread_id = thread_id}
Select(table, thread_id, checkpoint_ns) ==
    {r \in table : r.thread_id = thread_id /\ r.checkpoint_ns = checkpoint_ns}

\* order by checkpoint_id desc limit 1
OrderAscLimit1(rows) ==
    {r \in rows : \A o \in rows : o.checkpoint_id >= r.checkpoint_id}
OrderDescLimit1(rows) ==
    {r \in rows : \A o \in rows : o.checkpoint_id <= r.checkpoint_id}

\* the rows the query of aget_tuple returns
Query(table, config) ==
    LET q == Select(table, config.thread_id, config.checkpoint_ns)
    IN  IF config.checkpoint_id # NoId
        THEN {r \in q : r.checkpoint_id = config.checkpoint_id}
        ELSE OrderDescLimit1(q)

aget_tuple(table, config) ==
    LET data == Query(table, config)
    IN  IF data = {}
        THEN None
        ELSE LET row == CHOOSE r \in data : TRUE
                 parent_id == row.parent_checkpoint_id
             IN  [config |-> config,
                  checkpoint |-> loads_checkpoint(encode(json_dumps(row.checkpoint))),
                  metadata |-> loads_metadata(encode(json_dumps(row.metadata))),
                  parent_config |->
                      IF parent_id # NoId
                      THEN [thread_id |-> config.thread_id,
                            checkpoint_ns |-> config.checkpoint_ns,
                            checkpoint_id |-> parent_id]
                      ELSE None]

WrittenKey(w) == <<w.thread_id, w.checkpoint_ns, w.checkpoint.id>>

CkptInit ==
    /\ checkpoints = {}
    /\ ckCall = [op |-> "none"]
    /\ ckRet = None
    /\ written = {}
    /\ nPuts = 0

\* aput: the upsert succeeds and the new config is returned. The checkpoint carries a
\* fresh id, so it differs from the config's checkpoint_id (the previous checkpoint).
Put ==
    /\ nPuts < MaxPuts
    /\ \E config \in Configs, checkpoint \in Checkpoints :
          LET metadata == MetadataOf(checkpoint.messages)
              w == [thread_id |-> config.thread_id,
                    checkpoint_ns |-> config.checkpoint_ns,
                    parent |-> config.checkpoint_id,
                    checkpoint |-> checkpoint,
                    metadata |-> metadata]
          IN  /\ checkpoint.id # config.checkpoint_id
              /\ checkpoints' = upsert(checkpoints, PutData(config, checkpoint, metadata))
              /\ ckCall' = [op |-> "aput", config |-> config, checkpoint |-> checkpoint,
                            metadata |-> metadata]
              /\ ckRet' = [thread_id |-> config.thread_id,
                           checkpoint_ns |-> config.checkpoint_ns,
                           checkpoint_id |-> checkpoint.id]
              /\ written' = {o \in written : WrittenKey(o) # WrittenKey(w)} \cup {w}
    /\ nPuts' = nPuts + 1
    /\ UNCHANGED <<profileVars, turnVars>>

\* aput: the store raises; the error is logged and the given config is returned
PutFails ==
    /\ nPuts < MaxPuts
    /\ \E config \in Configs, checkpoint \in Checkpoints :
          /\ checkpoint.id # config.checkpoint_id
          /\ ckCall' = [op |-> "aput", config |-> config, checkpoint |-> checkpoint,
                        metadata |-> MetadataOf(checkpoint.messages)]
          /\ ckRet' = config
    /\ nPuts' = nPuts + 1
    /\ UNCHANGED <<checkpoints, written>>
    /\ UNCHANGED <<profileVars, turnVars>>

\* aget_tuple: by checkpoint_id when the config has one, else the latest
Get ==
    /\ \E config \in Configs :
          /\ ckCall' = [op |-> "aget_tuple", config |-> config]
          /\ ckRet' = aget_tuple(checkpoints, config)
    /\ UNCHANGED <<checkpoints, written, nPuts>>
    /\ UNCHANGED <<profileVars, turnVars>>

\* order by checkpoint_id desc
RECURSIVE OrderDesc(_)
OrderDesc(rows) ==
    IF rows = {}
    THEN <<>>
    ELSE LET top == CHOOSE r \in rows : \A o \in rows : o.checkpoint_id <= r.checkpoint_id
         IN  <<top>> \o OrderDesc(rows \ {top})

\* .limit(limit) when a limit is given
Limit(rows, limit) ==
    IF limit # 0 /\ limit < Len(rows) THEN SubSeq(rows, 1, limit) ELSE rows

\* the tuple alist builds from a row: serde.loads is given the stored JSON itself
ListedTuple(config, row) ==
    [config |-> [thread_id |-> config.thread_id,
                 checkpoint_ns |-> config.checkpoint_ns,
                 checkpoint_id |-> row.checkpoint_id],
     checkpoint |-> loads_checkpoint(row.checkpoint),
     metadata |-> loads_metadata(row.metadata),
     parent_config |-> None]

\* alist: the tuples yielded until a row raises; the exception is logged and ends the listing
alist(table, config, limit) ==
    LET data == Limit(OrderDesc(Select(table, config.thread_id, config.checkpoint_ns)), limit)
        tuples == [k \in 1..Len(data) |-> ListedTuple(config, data[k])]
        raising == {k \in 1..Len(data) :
                       tuples[k].checkpoint = TypeError \/ tuples[k].metadata = TypeError}
    IN  IF raising = {}
        THEN tuples
        ELSE SubSeq(tuples, 1, (CHOOSE k \in raising : \A o \in raising : k <= o) - 1)

\* alist is iterated to its end; the caller's limit is 0 for none
List ==
    /\ \E config \in Configs, limit \in 0..MaxPuts :
          /\ config.checkpoint_id = NoId
          /\ ckCall' = [op |-> "alist", config |-> config, limit |-> limit]
          /\ ckRet' = alist(checkpoints, config, limit)
    /\ UNCHANGED <<checkpoints, written, nPuts>>
    /\ UNCHANGED <<profileVars, turnVars>>

\* aget_tuple: the query raises; the error is logged and None is returned
GetFails ==
    /\ \E config \in Configs : ckCall' = [op |-> "aget_tuple", config |-> config]
    /\ ckRet' = None
    /\ UNCHANGED <<checkpoints, written, nPuts>>
    /\ UNCHANGED <<profileVars, turnVars>>

(***************************************************************************)
(* One turn of the conversation graph (agent/orbit_agent.py): OrbitAgent.  *)
(* run invokes the compiled graph on the user's thread. The graph runtime  *)
(* loads the thread's latest checkpoint with aget_tuple, applies the input *)
(* and saves an "input" checkpoint, then runs one node per step; after     *)
(* each node it hands the node's writes to aput_writes, applies them to    *)
(* the "messages" channel with add_messages and saves a "loop" checkpoint  *)
(* with aput, passing the config of the checkpoint before it.              *)
(***************************************************************************)
\* the config OrbitAgent.run passes: the thread of the user, no checkpoint_id
RunConfig == [thread_id |-> "u1", checkpoint_ns |-> "", checkpoint_id |-> NoId]

\* the history a thread has stored before the turn: n messages, the last one a reply
StoredLens == {0, SummarizeThreshold - 2, SummarizeThreshold - 1}
StoredHistory(n) ==
    [i \in 1..n |->
        IF (n - i) % 2 = 0
        THEN [id |-> i, type |-> "ai", content |-> "reply " \o ToString(i),
              tool_calls |-> <<>>]
        ELSE [id |-> i, type |-> "human", content |-> "hi"]]

aput(table, config, checkpoint, metadata) == upsert(table, PutData(config, checkpoint, metadata))

\* aput_writes: the body is "pass"
aput_writes(held, config, task_writes, task_id) == held

\* the table of a thread that stored n messages: its latest checkpoint
StoredTable(n) ==
    IF n = 0 THEN {}
    ELSE aput({}, RunConfig, [id |-> 1, messages |-> StoredHistory(n)],
              [source |-> "loop", step |-> 1])

\* message ids are unique: a new message gets an id above those of the history
FreshId(msgs) == IF msgs = <<>> THEN 1 ELSE msgs[Len(msgs)].id + 1

\* the reducer of the "messages" channel: RemoveMessage deletes by id, others are appended
add_messages(left, right) ==
    LET removed == {right[k].id : k \in {j \in 1..Len(right) : right[j].type = "remove"}}
    IN  SelectSeq(left, LAMBDA m : m.id \notin removed)
            \o SelectSeq(right, LAMBDA m : m.type # "remove")

\* checkpoint ids are time-ordered: a new one ranks above every earlier one
NewCheckpointId ==
    LET ids == {r.checkpoint_id : r \in checkpoints} \cup {puts[k] : k \in 1..Len(puts)}
    IN  IF ids = {} THEN 1 ELSE 1 + CHOOSE i \in ids : \A o \in ids : o <= i

\* the runtime saves the channel as a new checkpoint, under the config of the one before;
\* when the upsert raises, aput logs the error and returns
SaveCheckpoint(config, msgs, source) ==
    LET checkpoint == [id |-> NewCheckpointId, messages |-> msgs]
    IN  /\ checkpoints' = IF checkpoints_up
                           THEN aput(checkpoints, config, checkpoint,
                                     [source |-> source, step |-> step])
                           ELSE checkpoints
        /\ checkpoint_config' = [config EXCEPT !.checkpoint_id = checkpoint.id]
        /\ puts' = Append(puts, checkpoint.id)
        /\ step' = step + 1

\* the runtime hands the writes of a finished node to aput_writes
SaveWrites(name, task_writes) ==
    LET task_id == <<step, name>>
    IN  /\ given_writes' =
               given_writes \cup {[task_id |-> task_id, task_writes |-> task_writes]}
        /\ pending_writes' =
               aput_writes(pending_writes, checkpoint_config, task_writes, task_id)

\* a node finished: its writes are handed over, applied and checkpointed
FinishNode(name, task_writes) ==
    /\ SaveWrites(name, task_writes)
    /\ messages' = add_messages(messages, task_writes)
    /\ SaveCheckpoint(checkpoint_config, add_messages(messages, task_writes), "loop")

\* graph.ainvoke returned: run returns the content of the last message
ReturnedFirst(msgs) == [status |-> "returned", content |-> msgs[1].content]
Returned(msgs) == [status |-> "returned", content |-> msgs[Len(msgs)].content]
NotReturned == [status |-> "running"]
ReturnedError == [status |-> "returned", content |-> "error"]
Raised == [status |-> "raised"]

SmIdle == [stage |-> "start"]

\* the second run has not started
NoTurn == [stage |-> "idle", loaded_id |-> 0, config |-> RunConfig, messages |-> <<>>,
           puts |-> <<>>]

\* the tools node has started no tool call
NoRuns == [started |-> {}, finished |-> {}]

\* what the query of get_user_timezone on table users does: it raises, finds no row,
\* or finds the row with its timezone column ("None": the column is null)
UsersAnswer(raised, present, timezone) ==
    [raised |-> raised, present |-> present, timezone |-> timezone]
NoAnswer == UsersAnswer(FALSE, FALSE, "")
StoredZone == UsersAnswer(FALSE, TRUE, "America/Los_Angeles")
UsersAnswers ==
    {UsersAnswer(TRUE, FALSE, ""), UsersAnswer(FALSE, FALSE, "")}
        \cup {UsersAnswer(FALSE, TRUE, z) : z \in {"America/Los_Angeles", "Mars/Phobos", "None"}}

TurnInit ==
    /\ node = "idle"
    /\ messages = <<>>
    /\ checkpoint_config = RunConfig
    /\ loaded = None
    /\ latestAtStart = {}
    /\ puts = <<>>
    /\ step = -1
    /\ rounds = 0
    /\ passes = 0
    /\ sm = SmIdle
    /\ given_writes = {}
    /\ pending_writes = {}
    /\ run_result = NotReturned
    /\ checkpoints_up = TRUE
    /\ tool_runs = NoRuns
    /\ prompt = <<>>
    /\ timezone_read = NoAnswer
    /\ concurrent_turn = NoTurn

\* run: the runtime loads the thread (saved: what aget_tuple returned), applies the
\* input message and saves the "input" checkpoint; the entry point is "agent"
Start(saved) ==
    LET channel == IF saved = None THEN <<>> ELSE saved.checkpoint.messages
        config == IF saved = None THEN RunConfig ELSE saved.config
        inputs == <<[id |-> FreshId(channel), type |-> "human", content |-> "input_text"]>>
    IN  /\ node = "idle"
        /\ loaded' = saved
        /\ latestAtStart' =
               OrderDescLimit1(Select(checkpoints, RunConfig.thread_id, RunConfig.checkpoint_ns))
        /\ messages' = add_messages(channel, inputs)
        /\ SaveCheckpoint(config, add_messages(channel, inputs), "input")
        /\ node' = "agent"
        /\ UNCHANGED <<rounds, passes, sm, given_writes, pending_writes, run_result>>
        /\ UNCHANGED <<profileVars, ckCall, ckRet, written, nPuts>>
        /\ UNCHANGED turnEnv

StartTurn == Start(IF checkpoints_up THEN aget_tuple(checkpoints, RunConfig) ELSE None)

\* aget_tuple caught an error of the store and returned None
StartTurnGetFails == Start(None)

\* what the model may ask for: the tool and its arguments
ToolRequests ==
    {[name |-> "delete_event", args |-> "missing event_id"],
     [name |-> "delete_event", args |-> "existing event_id"],
     [name |-> "create_event", args |-> "unparseable start_time"]}

RECURSIVE SeqsUpTo(_, _)
SeqsUpTo(S, n) ==
    IF n = 0 THEN {<<>>}
    ELSE LET shorter == SeqsUpTo(S, n - 1)
         IN  shorter \cup {Append(q, x) : q \in shorter, x \in S}

\* the tool-call requests a model response may carry: up to MaxToolCalls distinct ones
Responses ==
    {q \in SeqsUpTo(ToolRequests, MaxToolCalls) :
        \A i, j \in 1..Len(q) : q[i] = q[j] => i = j}

AIMessage(id, requests) ==
    [id |-> id, type |-> "ai",
     content |-> IF requests = <<>> THEN "reply " \o ToString(id) ELSE "",
     tool_calls |-> [k \in 1..Len(requests) |->
                        [name |-> requests[k].name, args |-> requests[k].args,
                         id |-> <<id, k>>]]]

\* _should_continue, mapped by the conditional edge of "agent"
should_continue_always_tools(msgs) == "tools"
should_continue(msgs) ==
    LET last_message == msgs[Len(msgs)]
    IN  IF last_message.tool_calls # <<>> THEN "tools" ELSE "check_memory"

\* get_user_timezone: "UTC" when the query raises or finds no row, else the column
get_user_timezone(answer) ==
    IF answer.raised \/ ~answer.present THEN "UTC" ELSE answer.timezone

\* the zone names ZoneInfo accepts; for any other key it raises
ValidZones == {"UTC", "America/Los_Angeles"}

\* the current time rendered in the zone, in UTC when ZoneInfo raised
current_time_str_no_fallback(user_timezone) == [now |-> "now_utc", zone |-> user_timezone]
current_time_str(user_timezone) ==
    [now |-> "now_utc", zone |-> IF user_timezone \in ValidZones THEN user_timezone ELSE "UTC"]

\* _get_system_message: the prompt formatted with the stored profile and the time
get_system_message(row, answer) ==
    [type |-> "system",
     user_document |-> Str(get_user_profile(row).doc),
     current_time |-> current_time_str(get_user_timezone(answer))]

\* [sys_msg] + the messages that are no SystemMessage
final_messages_system_last(sys_msg, msgs) == msgs \o <<sys_msg>>
final_messages(sys_msg, msgs) ==
    <<sys_msg>> \o SelectSeq(msgs, LAMBDA m : m.type # "system")

\* _call_model: the prompt is built, the model answers, the response is appended
AgentStep(requests, answer) ==
    LET response == AIMessage(FreshId(messages), requests)
    IN  /\ node = "agent"
        /\ prompt' = final_messages(get_system_message(user_profiles, answer), messages)
        /\ timezone_read' = answer
        /\ FinishNode("agent", <<response>>)
        /\ node' = should_continue(add_messages(messages, <<response>>))
        /\ UNCHANGED <<loaded, latestAtStart, rounds, passes, sm, run_result>>
        /\ UNCHANGED <<profileVars, ckCall, ckRet, written, nPuts>>
        /\ UNCHANGED <<checkpoints_up, tool_runs, concurrent_turn>>

\* the model asks for tools in at most MaxToolRounds responses of a turn
MayAnswer(requests) == requests # <<>> => rounds < MaxToolRounds

Agent == \E requests \in Responses : MayAnswer(requests) /\ AgentStep(requests, StoredZone)

\* the number of messages the thread held when the turn loaded it
StartLen == IF loaded = None THEN 0 ELSE Len(loaded.checkpoint.messages)

\* a long turn: the model asks for one tool call per response, as long as the request,
\* its result and the closing response keep the turn within 30 added messages
LongResponses == {<<>>, <<[name |-> "delete_event", args |-> "missing event_id"]>>}
AgentLong ==
    \E requests \in LongResponses :
        /\ requests # <<>> => Len(messages) - StartLen + 3 <= 30
        /\ AgentStep(requests, StoredZone)

\* the same, for every outcome of the users query
AgentAnyTimezone ==
    \E requests \in Responses, answer \in UsersAnswers :
        MayAnswer(requests) /\ AgentStep(requests, answer)

\* _call_model: the model (or the profile read of the system message) raises; the
\* exception leaves graph.ainvoke and run
AgentFails ==
    /\ node = "agent"
    /\ node' = "error"
    /\ run_result' = Raised
    /\ UNCHANGED <<messages, checkpoint_config, loaded, latestAtStart, puts, step, rounds,
                   passes, sm, given_writes, pending_writes>>
    /\ UNCHANGED <<profileVars, ckptVars>>
    /\ UNCHANGED turnEnv

\* the tool functions: delete_event returns False when the calendar call raises,
\* create_event raises when start_time does not parse
RunTool(call) ==
    IF call.name = "delete_event"
    THEN IF call.args = "missing event_id"
         THEN [raised |-> FALSE, value |-> "false"]
         ELSE [raised |-> FALSE, value |-> "true"]
    ELSE [raised |-> TRUE, value |-> "ParserError"]

\* ToolNode: one ToolMessage per tool call, an exception becomes an error message
ToolMessage(call, id) ==
    LET out == RunTool(call)
    IN  [id |-> id, type |-> "tool", name |-> call.name, tool_call_id |-> call.id,
         content |-> IF out.raised
                     THEN "Error: " \o out.value \o "\n Please fix your mistakes."
                     ELSE out.value,
         status |-> IF out.raised THEN "error" ELSE "success"]

\* ToolNode runs the tool calls of the last message; the edge leads back to "agent"
Tools ==
    /\ node = "tools"
    /\ LET tool_calls == messages[Len(messages)].tool_calls
           outputs == [k \in 1..Len(tool_calls) |->
                          ToolMessage(tool_calls[k], FreshId(messages) + k - 1)]
       IN  FinishNode("tools", outputs)
    /\ node' = "agent"
    /\ rounds' = rounds + 1
    /\ UNCHANGED <<loaded, latestAtStart, passes, sm, run_result>>
    /\ UNCHANGED <<profileVars, ckCall, ckRet, written, nPuts>>
    /\ tool_runs' = NoRuns
    /\ UNCHANGED <<checkpoints_up, prompt, timezone_read, concurrent_turn>>

\* _check_memory_pressure, mapped by the conditional edge of "check_memory"
check_memory_pressure_at_threshold(msgs) ==
    IF Len(msgs) >= SummarizeThreshold THEN "summarize" ELSE "end"
check_memory_pressure(msgs) ==
    IF Len(msgs) > SummarizeThreshold THEN "summarize" ELSE "end"

\* _check_memory_pressure_node: writes nothing; the edge leads to "summarize" or END
CheckMemory ==
    /\ node = "check_memory"
    /\ FinishNode("check_memory", <<>>)
    /\ node' = check_memory_pressure(messages)
    /\ run_result' = IF check_memory_pressure(messages) = "end"
                     THEN Returned(messages) ELSE run_result
    /\ UNCHANGED <<loaded, latestAtStart, rounds, passes, sm>>
    /\ UNCHANGED <<profileVars, ckCall, ckRet, written, nPuts>>
    /\ UNCHANGED turnEnv

\* messages[:PRUNE_COUNT]
Prefix(msgs, n) == SubSeq(msgs, 1, IF Len(msgs) < n THEN Len(msgs) ELSE n)
early_messages_newest(msgs) == SubSeq(msgs, Len(msgs) - PRUNE_COUNT + 1, Len(msgs))
early_messages(msgs) == Prefix(msgs, PRUNE_COUNT)

\* what the consolidation model may answer
ConsolidationOutputs ==
    {<<"NO_UPDATE">>, <<"Consolidated profile">>, <<"Consolidated profile", "NO_UPDATE">>}
IsExactly(text, token) == text = <<token>>
Contains(text, token) == \E k \in 1..Len(text) : text[k] = token

\* _summarize_conversation up to its await: the profile is read
SummarizeRead ==
    /\ node = "summarize" /\ sm.stage = "start"
    /\ sm' = [stage |-> "read",
              early_messages |-> early_messages(messages),
              current_profile |-> get_user_profile(user_profiles).doc,
              version |-> get_user_profile(user_profiles).version]
    /\ UNCHANGED <<node, messages, checkpoint_config, loaded, latestAtStart, puts, step,
                   rounds, passes, given_writes, pending_writes, run_result>>
    /\ UNCHANGED <<profileVars, ckptVars>>
    /\ UNCHANGED turnEnv

\* the consolidation model answers
SummarizeModel ==
    /\ node = "summarize" /\ sm.stage = "read"
    /\ \E content \in ConsolidationOutputs :
          sm' = [stage |-> "answered",
                 early_messages |-> sm.early_messages,
                 current_profile |-> sm.current_profile,
                 version |-> sm.version,
                 new_profile_content |-> content,
                 stored_at_answer |-> StoredVersion]
    /\ UNCHANGED <<node, messages, checkpoint_config, loaded, latestAtStart, puts, step,
                   rounds, passes, given_writes, pending_writes, run_result>>
    /\ UNCHANGED <<profileVars, ckptVars>>
    /\ UNCHANGED turnEnv

\* consolidation_model.ainvoke raises: nothing catches it in _summarize_conversation, in
\* the graph or in run
SummarizeModelFails ==
    /\ node = "summarize" /\ sm.stage = "read"
    /\ sm' = [sm EXCEPT !.stage = "model failed"]
    /\ node' = "error"
    /\ run_result' = Raised
    /\ UNCHANGED <<messages, checkpoint_config, loaded, latestAtStart, puts, step, rounds,
                   passes, given_writes, pending_writes>>
    /\ UNCHANGED <<profileVars, ckptVars>>
    /\ UNCHANGED turnEnv

\* [RemoveMessage(id=m.id) for m in early_messages if m.id]
delete_ops_none(early) == <<>>
delete_ops(early) == [k \in 1..Len(early) |-> [type |-> "remove", id |-> early[k].id]]

\* a variant that starts the pass again instead of finishing it
SummarizeWriteRetrying ==
    /\ node = "summarize" /\ sm.stage = "answered"
    /\ sm' = SmIdle
    /\ UNCHANGED <<node, messages, checkpoint_config, loaded, latestAtStart, puts, step,
                   rounds, passes, given_writes, pending_writes, run_result>>
    /\ UNCHANGED <<profileVars, ckptVars>>
    /\ UNCHANGED turnEnv

\* the rest of _summarize_conversation: the profile is rewritten unless the answer holds
\* NO_UPDATE (the value update_user_document returns is not looked at), and the early
\* messages are removed by id; the edge leads to END
SummarizeWrite ==
    LET updates == ~Contains(sm.new_profile_content, "NO_UPDATE")
        ok == updates /\ Matches(user_profiles, sm.version)
        removals == delete_ops(sm.early_messages)
    IN  /\ node = "summarize" /\ sm.stage = "answered"
        /\ IF ok
           THEN /\ user_profiles' = Row(sm.new_profile_content, next_version(sm.version))
                /\ profile_history' =
                       Append(profile_history,
                              [new_document |-> sm.new_profile_content,
                               change_reason |-> "Memory Consolidation (Rewrite)"])
                /\ wins' = wins \cup {[caller |-> 0, expected |-> sm.version,
                                       stored |-> user_profiles'.version]}
           ELSE UNCHANGED <<user_profiles, profile_history, wins>>
        /\ sm' = [sm EXCEPT !.stage = IF ~updates THEN "skipped"
                                      ELSE IF ok THEN "updated" ELSE "conflict"]
        /\ FinishNode("summarize", removals)
        /\ passes' = passes + 1
        /\ node' = "end"
        /\ run_result' = Returned(add_messages(messages, removals))
        /\ UNCHANGED <<loaded, latestAtStart, rounds>>
        /\ UNCHANGED <<quiz_completed, pc, kind, cur, attempt, success, result, reads,
                       writes, startVersion, initial>>
        /\ UNCHANGED <<ckCall, ckRet, written, nPuts>>
        /\ UNCHANGED turnEnv

vars == <<profileVars, ckptVars, turnVars>>

Init == ProfileInit /\ CkptInit /\ TurnInit

Next == \E p \in Callers : Call(p) \/ Read(p) \/ Update(p)

Spec == Init /\ [][Next]_vars

\* the onboarding quiz completes for a user whose profile row already exists
InitQuiz == Init /\ user_profiles = Row(InitialDoc, MaxInitVersion)

NextQuiz == Next \/ CompleteQuiz

SpecQuiz == InitQuiz /\ [][NextQuiz]_vars

\* the checkpointer alone, on the profile row of a new user
InitCkpt == Init /\ user_profiles = NoRow

NextCkpt == Put \/ Get

SpecCkpt == InitCkpt /\ [][NextCkpt]_vars

\* the same, with store calls that may raise
NextStore == Next \/ \E p \in Callers : UpdateHistoryFails(p) \/ StoreRaises(p)

SpecStore == Init /\ [][NextStore]_vars

\* callers on an existing row, with a profile_history insert that may raise
InitHistory == Init /\ user_profiles = Row(InitialDoc, MaxInitVersion)

NextHistory == Next \/ \E p \in Callers : UpdateHistoryFails(p)

SpecHistory == InitHistory /\ [][NextHistory]_vars

\* the checkpointer with its listing
NextCkptList == NextCkpt \/ List

SpecCkptList == InitCkpt /\ [][NextCkptList]_vars

NextCkptStore == NextCkpt \/ PutFails \/ GetFails

SpecCkptStore == InitCkpt /\ [][NextCkptStore]_vars

\* one turn on a thread with a stored history, of a user without a profile row or with
\* one; the store and the models answer
InitTurn ==
    /\ ProfileInit /\ TurnInit
    /\ user_profiles \in {NoRow, Row(InitialDoc, MaxInitVersion)}
    /\ checkpoints \in {StoredTable(n) : n \in StoredLens}
    /\ ckCall = [op |-> "none"] /\ ckRet = None /\ written = {} /\ nPuts = 0

Summarize == SummarizeRead \/ SummarizeModel \/ SummarizeWrite

NextTurn == StartTurn \/ Agent \/ Tools \/ CheckMemory \/ Summarize

SpecTurn == InitTurn /\ [][NextTurn]_vars

\* the same, with a model call of _call_model that may raise
NextTurnModel == NextTurn \/ AgentFails

SpecTurnModel == InitTurn /\ [][NextTurnModel]_vars

\* the same, with an aget_tuple whose query may raise
NextTurnStore == NextTurn \/ StartTurnGetFails

SpecTurnStore == InitTurn /\ [][NextTurnStore]_vars

\* ToolNode under ainvoke: the tool calls of the last message are gathered as tasks,
\* started in the order of the requests, each tool function running in a worker thread
ToolDispatch ==
    /\ node = "tools"
    /\ LET tool_calls == messages[Len(messages)].tool_calls
           k == Cardinality(tool_runs.started) + 1
       IN  /\ k <= Len(tool_calls)
           /\ tool_runs' = [tool_runs EXCEPT !.started = @ \cup {k}]
    /\ UNCHANGED <<profileVars, ckptVars, node, messages, checkpoint_config, loaded,
                   latestAtStart, puts, step, rounds, passes, sm, given_writes,
                   pending_writes, run_result, checkpoints_up, prompt, timezone_read,
                   concurrent_turn>>

\* a started tool function returns or raises
ToolReturn ==
    /\ node = "tools"
    /\ \E k \in tool_runs.started \ tool_runs.finished :
          tool_runs' = [tool_runs EXCEPT !.finished = @ \cup {k}]
    /\ UNCHANGED <<profileVars, ckptVars, node, messages, checkpoint_config, loaded,
                   latestAtStart, puts, step, rounds, passes, sm, given_writes,
                   pending_writes, run_result, checkpoints_up, prompt, timezone_read,
                   concurrent_turn>>

\* all tasks are done: the node returns their messages in the order of the requests
ToolsJoin ==
    /\ node = "tools"
    /\ tool_runs.finished = 1..Len(messages[Len(messages)].tool_calls)
    /\ Tools

\* a turn whose tools node is seen call by call
NextTurnTools ==
    StartTurn \/ Agent \/ ToolDispatch \/ ToolReturn \/ ToolsJoin \/ CheckMemory \/ Summarize

SpecTurnTools == InitTurn /\ [][NextTurnTools]_vars

\* the backend stops answering the queries on table checkpoints, and answers again
CheckpointsGoDown ==
    /\ checkpoints_up
    /\ checkpoints_up' = FALSE
    /\ UNCHANGED <<profileVars, ckptVars, node, messages, checkpoint_config, loaded,
                   latestAtStart, puts, step, rounds, passes, sm, given_writes,
                   pending_writes, run_result, tool_runs, prompt, timezone_read,
                   concurrent_turn>>

CheckpointsComeBack ==
    /\ ~checkpoints_up
    /\ checkpoints_up' = TRUE
    /\ UNCHANGED <<profileVars, ckptVars, node, messages, checkpoint_config, loaded,
                   latestAtStart, puts, step, rounds, passes, sm, given_writes,
                   pending_writes, run_result, tool_runs, prompt, timezone_read,
                   concurrent_turn>>

\* a turn during which the checkpoints table may stop and start answering
NextTurnCkptDown == NextTurn \/ CheckpointsGoDown \/ CheckpointsComeBack

SpecTurnCkptDown == InitTurn /\ [][NextTurnCkptDown]_vars

\* the same, with another writer of the profile active while the turn consolidates
Writer == 1
Consolidating == node = "summarize"
NextTurnRace ==
    \/ NextTurn
    \/ Consolidating /\ Call(Writer)
    \/ Consolidating /\ Read(Writer)
    \/ Consolidating /\ Update(Writer)

SpecTurnRace == InitTurn /\ [][NextTurnRace]_vars

\* a second OrbitAgent.run on the same thread starts: the runtime loads the latest
\* checkpoint of the thread
ConcurrentLoad ==
    LET saved == aget_tuple(checkpoints, RunConfig)
    IN  /\ concurrent_turn.stage = "idle"
        /\ concurrent_turn' =
               [stage |-> "input",
                loaded_id |-> IF saved = None THEN NoId ELSE saved.checkpoint.id,
                config |-> IF saved = None THEN RunConfig ELSE saved.config,
                messages |-> IF saved = None THEN <<>> ELSE saved.checkpoint.messages,
                puts |-> <<>>]
        /\ UNCHANGED <<profileVars, ckptVars>>
        /\ UNCHANGED <<node, messages, checkpoint_config, loaded, latestAtStart, puts, step,
                       rounds, passes, sm, given_writes, pending_writes, run_result,
                       checkpoints_up, tool_runs, prompt, timezone_read>>

\* it applies its input and saves the input checkpoint
ConcurrentInput ==
    LET inputs == <<[id |-> FreshId(concurrent_turn.messages), type |-> "human",
                     content |-> "other input_text"]>>
        checkpoint == [id |-> NewCheckpointId,
                       messages |-> add_messages(concurrent_turn.messages, inputs)]
    IN  /\ concurrent_turn.stage = "input"
        /\ checkpoints' = aput(checkpoints, concurrent_turn.config, checkpoint,
                               [source |-> "input", step |-> -1])
        /\ concurrent_turn' =
               [concurrent_turn EXCEPT
                    !.stage = "agent",
                    !.config = [@ EXCEPT !.checkpoint_id = checkpoint.id],
                    !.messages = checkpoint.messages,
                    !.puts = Append(@, checkpoint.id)]
        /\ UNCHANGED <<profileVars, ckCall, ckRet, written, nPuts>>
        /\ UNCHANGED <<node, messages, checkpoint_config, loaded, latestAtStart, puts, step,
                       rounds, passes, sm, given_writes, pending_writes, run_result,
                       checkpoints_up, tool_runs, prompt, timezone_read>>

\* its agent step: the model answers without tool calls, the checkpoint is saved
ConcurrentAgent ==
    LET response == AIMessage(FreshId(concurrent_turn.messages), <<>>)
        checkpoint == [id |-> NewCheckpointId,
                       messages |-> add_messages(concurrent_turn.messages, <<response>>)]
    IN  /\ concurrent_turn.stage = "agent"
        /\ checkpoints' = aput(checkpoints, concurrent_turn.config, checkpoint,
                               [source |-> "loop", step |-> 0])
        /\ concurrent_turn' =
               [concurrent_turn EXCEPT
                    !.stage = "check_memory",
                    !.config = [@ EXCEPT !.checkpoint_id = checkpoint.id],
                    !.messages = checkpoint.messages,
                    !.puts = Append(@, checkpoint.id)]
        /\ UNCHANGED <<profileVars, ckCall, ckRet, written, nPuts>>
        /\ UNCHANGED <<node, messages, checkpoint_config, loaded, latestAtStart, puts, step,
                       rounds, passes, sm, given_writes, pending_writes, run_result,
                       checkpoints_up, tool_runs, prompt, timezone_read>>

\* its check_memory step: nothing is added, the checkpoint is saved, the edge is taken
ConcurrentCheckMemory ==
    LET checkpoint == [id |-> NewCheckpointId,
                       messages |-> add_messages(concurrent_turn.messages, <<>>)]
    IN  /\ concurrent_turn.stage = "check_memory"
        /\ checkpoints' = aput(checkpoints, concurrent_turn.config, checkpoint,
                               [source |-> "loop", step |-> 1])
        /\ concurrent_turn' =
               [concurrent_turn EXCEPT
                    !.stage = check_memory_pressure(concurrent_turn.messages),
                    !.config = [@ EXCEPT !.checkpoint_id = checkpoint.id],
                    !.puts = Append(@, checkpoint.id)]
        /\ UNCHANGED <<profileVars, ckCall, ckRet, written, nPuts>>
        /\ UNCHANGED <<node, messages, checkpoint_config, loaded, latestAtStart, puts, step,
                       rounds, passes, sm, given_writes, pending_writes, run_result,
                       checkpoints_up, tool_runs, prompt, timezone_read>>

\* two runs on the same thread; the second is followed up to its check_memory step
NextTurnFork ==
    \/ NextTurn
    \/ ConcurrentLoad
    \/ ConcurrentInput
    \/ ConcurrentAgent
    \/ ConcurrentCheckMemory

\* on a thread that holds a checkpoint, for a user with a stored profile
InitTurnFork == InitTurn /\ user_profiles.present /\ checkpoints # {}

SpecTurnFork == InitTurnFork /\ [][NextTurnFork]_vars

\* long turns on stored histories of up to 75 messages
InitTurnLong ==
    /\ ProfileInit /\ TurnInit
    /\ user_profiles = Row(InitialDoc, MaxInitVersion)
    /\ checkpoints \in {StoredTable(n) : n \in {SummarizeThreshold - 30, SummarizeThreshold - 29, SummarizeThreshold}}
    /\ ckCall = [op |-> "none"] /\ ckRet = None /\ written = {} /\ nPuts = 0

NextTurnLong == StartTurn \/ AgentLong \/ Tools \/ CheckMemory \/ Summarize

SpecTurnLong == InitTurnLong /\ [][NextTurnLong]_vars

\* a turn in which either model may raise and every call returns: a step of the turn
\* that can be taken is eventually taken; the model asks for one tool call at a time
AgentLive ==
    \E requests \in LongResponses : MayAnswer(requests) /\ AgentStep(requests, StoredZone)

NextTurnLive ==
    \/ StartTurn
    \/ AgentLive
    \/ Tools
    \/ CheckMemory
    \/ Summarize
    \/ AgentFails
    \/ SummarizeModelFails

SpecTurnLive == InitTurn /\ [][NextTurnLive]_vars /\ WF_vars(NextTurnLive)

\* a turn with another writer of the profile active between its agent steps
Answering == node \in {"agent", "tools"}
NextTurnWriter ==
    \/ NextTurn
    \/ Answering /\ Call(Writer)
    \/ Answering /\ Read(Writer)
    \/ Answering /\ Update(Writer)

\* on a stored profile row: without a row every update of the writer matches nothing
InitTurnWriter == InitTurn /\ user_profiles.present

SpecTurnWriter == InitTurnWriter /\ [][NextTurnWriter]_vars

\* a turn whose users query may raise, find no row, or find any timezone value
NextTurnTimezone == StartTurn \/ AgentAnyTimezone \/ Tools \/ CheckMemory \/ Summarize

SpecTurnTimezone == InitTurn /\ [][NextTurnTimezone]_vars

\* one turn with a consolidation model call that may raise
NextTurnConsolidation == NextTurn \/ SummarizeModelFails

SpecTurnConsolidation == InitTurn /\ [][NextTurnConsolidation]_vars

(***************************************************************************)
(* Properties of the profile store.                                        *)
(***************************************************************************)
UpdateStep(p) == pc[p] = "write" /\ writes'[p] = writes[p] + 1
HasFact(doc, p) == \E i \in 1..(Len(doc) - 1) : doc[i] = Sep /\ doc[i + 1] = Fact(p)
Succeeded == {p \in Callers : result[p] = "success"}
AppendOnly == \A p \in Callers : kind[p] # "cas"

\* C1: of the update_user_document calls that carry the same expected_version at most
\* one returns true, and the call that returns true leaves the stored version at
\* exactly expected_version + 1.
C1_AtMostOneWinner ==
    /\ \A w1, w2 \in wins : w1.expected = w2.expected => w1 = w2
    /\ \A w \in wins : w.stored = w.expected + 1
    /\ \A p, q \in Callers :
           (result[p] = "true" /\ result[q] = "true" /\ cur[p].version = cur[q].version)
               => p = q

\* three callers read the same version; one update returned true, the others false
C1_Witness ==
    \E p \in Callers :
        /\ result[p] = "true"
        /\ \A q \in Callers \ {p} :
               result[q] = "false" /\ cur[q].version = cur[p].version
        /\ user_profiles.version = cur[p].version + 1

\* C2: an update_user_document call whose expected_version is not the stored version
\* returns false and leaves the row and the history as they were; a call carrying the
\* version another caller has already written from fails and leaves the row alone.
C2_MismatchLeavesState ==
    [][\A q \in Callers :
          UpdateStep(q) =>
              /\ ~(user_profiles.present /\ user_profiles.version = cur[q].version) =>
                     /\ success'[q] = FALSE
                     /\ kind[q] = "cas" => result'[q] = "false"
                     /\ UNCHANGED <<user_profiles, profile_history>>
              /\ (\E w \in wins : w.caller # q /\ w.expected = cur[q].version) =>
                     /\ success'[q] = FALSE
                     /\ UNCHANGED <<user_profiles, profile_history>>]_vars

\* writers A and B read the same version, A wrote, B's later write failed, A's text stays
C2_Witness ==
    \E a, b \in Callers :
        /\ a # b /\ kind[a] = "cas" /\ kind[b] = "cas"
        /\ cur[a].version = cur[b].version
        /\ result[a] = "true" /\ result[b] = "false"
        /\ user_profiles = Row(WriterDoc(a), cur[a].version + 1)
        /\ Len(profile_history) = 1

\* C3: the stored version never decreases, every write of the row raises it by exactly
\* one, and the document text changes only in a successful update_user_document.
C3_VersionOnlyByCas ==
    [][/\ StoredVersion' >= StoredVersion
       /\ user_profiles' # user_profiles => StoredVersion' = StoredVersion + 1
       /\ user_profiles'.doc # user_profiles.doc =>
              \E p \in Callers : UpdateStep(p) /\ success'[p]]_vars

\* C4: get_user_profile of a user without a row returns the default text and version
\* 0, and the update_user_document issued next with expected_version 0 returns true
\* and stores version 1.
C4_DefaultThenUpdate ==
    [][\A p \in Callers :
          (UpdateStep(p) /\ ~user_profiles.present /\ reads[p] = 1) =>
              /\ cur[p].version = 0
              /\ cur[p].doc.text = DefaultText
              /\ success'[p] = TRUE
              /\ user_profiles'.present /\ user_profiles'.version = 1]_vars

\* C5: when only update_profile calls run, each returns success or the contention
\* failure, the version has advanced by one per successful call, and the document
\* holds the fact of every call that returned success.
C5_NoLostFact ==
    AppendOnly =>
        /\ \A p \in Callers : pc[p] = "done" => result[p] \in {"success", "contention"}
        /\ StoredVersion = (IF initial.present THEN initial.version ELSE 0)
                               + Cardinality(Succeeded)
        /\ \A p \in Succeeded : HasFact(user_profiles.doc, p)

\* three update_profile calls all returned success, one of them after a conflict
C5_Witness ==
    /\ AppendOnly
    /\ Succeeded = Callers
    /\ \E p \in Callers : attempt[p] >= 1
    /\ user_profiles.version = initial.version + NumCallers

\* C6: when update_profile returns success, the stored document is the text it read in
\* that attempt followed by the separator and the fact, stored at a version above the
\* one stored when the call started.
C6_SuccessAppends ==
    [][\A p \in Callers :
          (kind[p] = "append" /\ result[p] # "success" /\ result'[p] = "success") =>
              /\ reads[p] = writes[p] + 1
              /\ user_profiles'.doc = Str(cur[p].doc) \o <<Sep, Fact(p)>>
              /\ user_profiles'.version = cur[p].version + 1
              /\ user_profiles'.version > startVersion[p]]_vars

\* an update_profile call succeeded on its second attempt, two versions above its start
C6_Witness ==
    \E p \in Callers :
        /\ result[p] = "success" /\ attempt[p] = 1
        /\ user_profiles.doc = Str(cur[p].doc) \o <<Sep, Fact(p)>>
        /\ user_profiles.version = startVersion[p] + 2

\* C7: update_profile makes at most 3 update attempts, each after a read of its own,
\* and returns the contention failure exactly after the third failed attempt.
C7_BoundedRetry ==
    \A p \in Callers :
        kind[p] = "append" =>
            /\ writes[p] <= 3
            /\ attempt[p] <= 3
            /\ reads[p] = (IF pc[p] = "write" THEN writes[p] + 1 ELSE writes[p])
            /\ result[p] = "contention" <=> (pc[p] = "done" /\ writes[p] = 3 /\ ~success[p])
            /\ (pc[p] = "read" /\ writes[p] >= 1) => ~success[p]

\* an update_profile call gave up after three reads and three failed updates
C7_Witness ==
    \E p \in Callers :
        /\ kind[p] = "append" /\ result[p] = "contention"
        /\ reads[p] = 3 /\ writes[p] = 3 /\ attempt[p] = 3

(***************************************************************************)
(* Properties of the checkpointer.                                         *)
(***************************************************************************)
WrittenAt(thread_id, checkpoint_ns) ==
    {w \in written : w.thread_id = thread_id /\ w.checkpoint_ns = checkpoint_ns}
RowsAt(w) == {r \in checkpoints : <<r.thread_id, r.checkpoint_ns, r.checkpoint_id>>
                                     = WrittenKey(w)}

\* C8: aget_tuple with the checkpoint_id of a checkpoint written by aput returns the
\* checkpoint and the metadata that were written, and None only when none was written.
C8_RoundTrip ==
    (ckCall.op = "aget_tuple" /\ ckCall.config.checkpoint_id # NoId) =>
        LET ws == {w \in WrittenAt(ckCall.config.thread_id, ckCall.config.checkpoint_ns) :
                       w.checkpoint.id = ckCall.config.checkpoint_id}
        IN  /\ ckRet = None <=> ws = {}
            /\ \A w \in ws : /\ ckRet.checkpoint = w.checkpoint
                             /\ ckRet.metadata = w.metadata

\* a checkpoint holding a message was written and read back by its id
C8_Witness ==
    /\ ckCall.op = "aget_tuple" /\ ckCall.config.checkpoint_id # NoId
    /\ ckRet # None
    /\ ckRet.checkpoint.messages # <<>>
    /\ ckRet.checkpoint.id = ckCall.config.checkpoint_id
    /\ ckRet.metadata.source = "loop"
    /\ Cardinality(checkpoints) = 2

\* C9: aget_tuple without a checkpoint_id returns the written checkpoint with the
\* highest id of exactly the given thread_id and checkpoint_ns, with the parent link it
\* was written with, and None when that key holds none.
C9_Latest ==
    (ckCall.op = "aget_tuple" /\ ckCall.config.checkpoint_id = NoId) =>
        LET ws == WrittenAt(ckCall.config.thread_id, ckCall.config.checkpoint_ns)
        IN  /\ ckRet = None <=> ws = {}
            /\ ws # {} =>
                 \E w \in ws :
                    /\ \A o \in ws : o.checkpoint.id <= w.checkpoint.id
                    /\ ckRet.checkpoint = w.checkpoint
                    /\ ckRet.metadata = w.metadata
                    /\ IF w.parent = NoId
                       THEN ckRet.parent_config = None
                       ELSE ckRet.parent_config =
                                [thread_id |-> w.thread_id,
                                 checkpoint_ns |-> w.checkpoint_ns,
                                 checkpoint_id |-> w.parent]

\* C1 (no parent) then C2 (parent C1) were written; the latest is C2, its parent is C1
C9_Witness ==
    /\ ckCall.op = "aget_tuple" /\ ckCall.config.checkpoint_id = NoId
    /\ ckRet # None
    /\ ckRet.checkpoint.id = 2
    /\ ckRet.parent_config # None
    /\ ckRet.parent_config.checkpoint_id = 1
    /\ \E w \in WrittenAt(ckCall.config.thread_id, ckCall.config.checkpoint_ns) :
           w.checkpoint.id = 1 /\ w.parent = NoId

\* C10: each written key holds exactly one row, with the state last written to it, and
\* an aput that repeats the last aput of its key leaves the table as it was.
C10_Upsert ==
    /\ [](\A w \in written :
             /\ Cardinality(RowsAt(w)) = 1
             /\ \A r \in RowsAt(w) :
                    /\ r.checkpoint = EncodeCheckpoint(w.checkpoint)
                    /\ r.metadata = EncodeMetadata(w.metadata)
                    /\ r.parent_checkpoint_id = w.parent)
    /\ [](Cardinality(checkpoints) = Cardinality(written))
    /\ [][(nPuts' = nPuts + 1 /\ written' = written) => checkpoints' = checkpoints]_vars

\* the same checkpoint id was written twice with different states: one row, the second state
C10_Witness ==
    /\ nPuts = 2
    /\ Cardinality(checkpoints) = 1
    /\ ckCall.op = "aput"
    /\ ckCall.checkpoint.messages # <<>>
    /\ \A r \in checkpoints : r.checkpoint = EncodeCheckpoint(ckCall.checkpoint)

(***************************************************************************)
(* Properties of the conversation turn.                                    *)
(***************************************************************************)
NodeStep(name) == node = name /\ node' # name
ThreadRows == Select(checkpoints, RunConfig.thread_id, RunConfig.checkpoint_ns)

\* C11: the check_memory node is followed by summarize exactly when the history holds
\* more than 75 messages, and otherwise by the end of the turn; a finished turn whose
\* history held more than 75 messages has run one consolidation pass, any other none.
C11_SummarizeIffOverThreshold ==
    /\ [][NodeStep("check_memory") =>
             /\ node' = "summarize" <=> Len(messages) > 75
             /\ node' = "end" <=> Len(messages) <= 75]_vars
    /\ [](node \in {"idle", "agent", "tools", "check_memory", "summarize"} => passes = 0)
    /\ [](node = "summarize" => Len(messages) > 75)
    /\ [](node = "end" => /\ passes <= 1
                          /\ passes = 1 => Len(messages) + 30 > 75
                          /\ passes = 0 => Len(messages) <= 75)

\* a turn that reached check_memory with 76 messages ended after one consolidation pass
C11_Witness ==
    /\ node = "end" /\ passes = 1
    /\ Len(messages) = 46
    /\ rounds = 0

\* C12: the summarize node, run on a history of n > 75 messages, hands over one
\* RemoveMessage per id of the 30 oldest messages, and the history after it is the
\* other n - 30 messages, unchanged and in their order.
C12_PrunesOldestThirty ==
    [][NodeStep("summarize") =>
          LET n == Len(messages)
          IN  /\ n > 75
              /\ Len(messages') = n - 30
              /\ \A k \in 1..(n - 30) : messages'[k] = messages[k + 30]
              /\ \A k \in 1..30 : \A j \in 1..(n - 30) : messages'[j].id # messages[k].id
              /\ \E w \in given_writes' \ given_writes :
                     /\ w.task_id[2] = "summarize"
                     /\ w.task_writes =
                            [k \in 1..30 |-> [type |-> "remove", id |-> messages[k].id]]]_vars

\* a history of 79 messages, two of them tool results, was pruned to its 49 newest
C12_Witness ==
    /\ node = "end" /\ passes = 1 /\ rounds = 1
    /\ Len(messages) = 49
    /\ messages[1].id = 31
    /\ messages[49].id = 79

\* a dispatch that fails: the calendar call of delete_event raises, create_event raises
DispatchFails(call) == call.args \in {"missing event_id", "unparseable start_time"}
CarriesError(m) == m.status = "error"

C14_GraphTransitions ==
    /\ [][node = "idle" /\ node' # "idle" => node' = "agent"]_vars
    /\ [][NodeStep("agent") =>
             LET response == messages'[Len(messages')]
             IN  /\ response.type = "ai"
                 /\ node' = "tools" <=> Len(response.tool_calls) >= 1
                 /\ node' = "check_memory" <=> Len(response.tool_calls) = 0]_vars
    /\ [][NodeStep("tools") => node' = "agent"]_vars
    /\ [][NodeStep("check_memory") => node' \in {"summarize", "end"}]_vars
    /\ [][NodeStep("summarize") => node' = "end"]_vars
    /\ [][node = "end" => node' = "end"]_vars

\* a turn went through agent, tools, agent, check_memory and summarize to its end
C14_Witness ==
    /\ node = "end" /\ rounds = 1 /\ passes = 1
    /\ Len(puts) = 6
    /\ run_result.status = "returned"

\* C15: when the model call of the agent node raises, run raises to its caller, no
\* message is appended and no checkpoint is written for the step, and no node runs
\* after it.
C15_ModelFailureEndsTurn ==
    /\ [][NodeStep("agent") /\ node' \notin {"tools", "check_memory"} =>
             /\ node' = "error"
             /\ run_result' = [status |-> "raised"]
             /\ messages' = messages
             /\ checkpoints' = checkpoints]_vars
    /\ [][node = "error" => /\ node' = "error"
                            /\ UNCHANGED <<messages, rounds, passes, run_result>>]_vars
    /\ [](node = "error" => run_result.status = "raised")

\* the model raised in the agent step that follows a tools step
C15_Witness ==
    /\ node = "error" /\ run_result.status = "raised"
    /\ rounds = 1
    /\ messages[Len(messages)].type = "tool"

\* C16: the writes handed to aput_writes are held by the checkpointer under their task
\* id once the call has returned.
C16_WritesPersisted ==
    \A w \in given_writes : w \in pending_writes

\* the id of the checkpoint the turn was loaded from, NoId when the thread had none
LoadedId == IF loaded = None THEN NoId ELSE loaded.checkpoint.id

\* C17: the k-th checkpoint written in a turn has as parent the checkpoint written
\* before it in the turn, and the first one the checkpoint loaded when the turn started.
C17_ParentChain ==
    \A k \in 1..Len(puts) :
        \A r \in ThreadRows :
            r.checkpoint_id = puts[k] =>
                r.parent_checkpoint_id = (IF k = 1 THEN LoadedId ELSE puts[k - 1])

\* C18: a turn on a thread that holds checkpoints starts from the messages of the
\* thread's latest checkpoint, followed by the input message.
C18_StartsFromLatest ==
    (node # "idle" /\ latestAtStart # {}) =>
        /\ loaded # None
        /\ \A r \in latestAtStart :
              /\ loaded.checkpoint = ReviveCheckpoint(r.checkpoint)
              /\ \E first \in ThreadRows :
                    /\ first.checkpoint_id = puts[1]
                    /\ Len(first.checkpoint.messages) = Len(r.checkpoint.messages) + 1
                    /\ \A k \in 1..Len(r.checkpoint.messages) :
                           first.checkpoint.messages[k] = r.checkpoint.messages[k]

\* C19: an update_user_document whose conditional update matched returns true and
\* leaves the document and version it wrote in place, whether or not the history insert
\* worked; a history entry is appended only by a call whose update matched.
C19_HistoryIsFireAndForget ==
    [][\A p \in Callers :
          UpdateStep(p) =>
              /\ (user_profiles.present /\ user_profiles.version = cur[p].version) =>
                     /\ success'[p] = TRUE
                     /\ kind[p] = "cas" => result'[p] = "true"
                     /\ user_profiles' = Row(DocToWrite(p), cur[p].version + 1)
                     /\ \/ profile_history' = profile_history
                        \/ profile_history' =
                               Append(profile_history,
                                      [new_document |-> DocToWrite(p),
                                       change_reason |-> ReasonOf(p)])
              /\ ~(user_profiles.present /\ user_profiles.version = cur[p].version) =>
                     /\ success'[p] = FALSE
                     /\ profile_history' = profile_history]_vars

\* an update returned true and its text and version are stored, its history insert failed
C19_Witness ==
    \E p \in Callers :
        /\ kind[p] = "cas" /\ result[p] = "true"
        /\ user_profiles = Row(WriterDoc(p), cur[p].version + 1)
        /\ profile_history = <<>>
        /\ wins # {}

\* C20: when the update_user_document of a consolidation pass found the row at another
\* version than the pass had read, the messages the pass covered are still in the
\* history.
C20_LostRaceKeepsMessages ==
    (node = "end" /\ sm.stage = "conflict" /\ user_profiles.present) =>
        \A k \in 1..Len(sm.early_messages) :
            \E j \in 1..Len(messages) : messages[j] = sm.early_messages[k]

\* C21: when the model call of the summarize node raises, the profile row stays as it
\* was, the early messages are removed from the history and run returns normally.
C21_ModelFailureStillPrunes ==
    sm.stage = "model failed" =>
        /\ get_user_profile(user_profiles).version = sm.version
        /\ run_result.status = "returned"
        /\ \A k \in 1..Len(sm.early_messages) :
               \A j \in 1..Len(messages) : messages[j].id # sm.early_messages[k].id

\* the history kept in the thread's latest stored checkpoint
InThread(r) ==
    r.thread_id = RunConfig.thread_id /\ r.checkpoint_ns = RunConfig.checkpoint_ns
HistoryIn(table) ==
    IF \A r \in table : ~InThread(r)
    THEN <<>>
    ELSE LET row == CHOOSE r \in table :
                        /\ InThread(r)
                        /\ \A o \in table :
                              InThread(o) => o.checkpoint_id <= r.checkpoint_id
         IN  ReviveCheckpoint(row.checkpoint).messages
PersistedHistory == HistoryIn(checkpoints)

\* C22: the summarize node ends in one of three outcomes (profile rewritten, NO_UPDATE
\* answered, update rejected), and in each of them the history in the channel and in
\* the checkpoint saved by the step is the earlier history without its first 30 messages.
C22_PrunesForEveryOutcome ==
    [][NodeStep("summarize") =>
          /\ sm'.stage \in {"updated", "skipped", "conflict"}
          /\ messages' = SubSeq(messages, 31, Len(messages))
          /\ checkpoints' # checkpoints
          /\ HistoryIn(checkpoints') = messages']_vars

\* a pass whose update was rejected after another writer's update left 46 of 76 messages
C22_Witness ==
    /\ node = "end" /\ sm.stage = "conflict"
    /\ user_profiles.present /\ user_profiles.version # sm.version
    /\ Len(messages) = 46
    /\ PersistedHistory = messages

\* C25: the write step of a consolidation pass ends the pass: it changes the stored
\* version by at most one and appends at most one history entry, and when its update
\* was rejected it leaves the row as it was, the turn ends, and the pass neither reads
\* the profile nor writes again.
C25_SingleUpdateAttempt ==
    /\ [][(sm.stage = "answered" /\ sm' # sm) =>
             /\ node' = "end"
             /\ sm'.stage \in {"updated", "skipped", "conflict"}
             /\ sm'.version = sm.version
             /\ Len(profile_history') <= Len(profile_history) + 1
             /\ StoredVersion' <= StoredVersion + 1
             /\ sm'.stage = "conflict" => UNCHANGED <<user_profiles, profile_history>>]_vars
    /\ [][sm.stage \in {"updated", "skipped", "conflict"} =>
             UNCHANGED <<sm, node, user_profiles, profile_history>>]_vars

\* the update of a pass was rejected one version behind the stored one; the turn ended
C25_Witness ==
    /\ node = "end" /\ sm.stage = "conflict" /\ passes = 1
    /\ user_profiles.present /\ user_profiles.version = sm.version + 1
    /\ user_profiles.doc = WriterDoc(Writer)
    /\ run_result.status = "returned"

\* C26: the expected_version a consolidation pass passes to update_user_document was
\* read after the consolidation model answered: it is not older than the version that
\* was stored when the model answered.
C26_ReadsAfterModel ==
    sm.stage \in {"answered", "updated", "skipped", "conflict"} =>
        sm.version >= sm.stored_at_answer

\* C23: a turn that returned to its caller has stored every checkpoint it handed to
\* aput, and has loaded the thread's latest checkpoint when the thread had one at its start.
C23_CheckpointFailureFailsTurn ==
    run_result.status = "returned" =>
        /\ \A k \in 1..Len(puts) : \E r \in ThreadRows : r.checkpoint_id = puts[k]
        /\ latestAtStart # {} => loaded # None

\* C24: a finished turn has returned the content of the thread's most recent assistant
\* message, which is the last message of the history, pruned or not.
C24_ReturnsLatestReply ==
    node = "end" =>
        LET ai == {k \in 1..Len(messages) : messages[k].type = "ai"}
        IN  /\ run_result.status = "returned"
            /\ ai # {}
            /\ \A k \in ai : k = Len(messages) \/ \E j \in ai : j > k
            /\ \E k \in ai :
                  /\ \A j \in ai : j <= k
                  /\ run_result.content = messages[k].content
                  /\ messages[k].id = FreshId(messages) - 1
                  /\ messages[k].tool_calls = <<>>

C24_Witness ==
    /\ node = "end"
    /\ passes = 1
    /\ rounds = 1
    /\ Len(messages) = 48
    /\ run_result = [status |-> "returned", content |-> "reply 78"]

C24_WitnessNoPruning ==
    /\ node = "end"
    /\ passes = 0
    /\ Len(messages) = 2
    /\ run_result = [status |-> "returned", content |-> "reply 2"]

\* C27: update_user_document returns False only when the version it was given is not
\* the version a read returns at that moment; update_profile goes back to reading only
\* after a False return; a store call that raises ends the caller at once with an error
\* result, without another read or write and without a change of the row.
C27_FailureDistinctFromConflict ==
    [][\A p \in Callers :
          /\ (writes'[p] = writes[p] + 1 /\ ~success'[p]) =>
                 get_user_profile(user_profiles).version # cur[p].version
          /\ (pc[p] = "write" /\ pc'[p] = "read") =>
                 (kind[p] = "append" /\ writes'[p] = writes[p] + 1 /\ ~success'[p])
          /\ (result[p] = "none" /\ result'[p] \in {"error", "raised"}) =>
                 /\ pc'[p] = "done"
                 /\ reads'[p] = reads[p] /\ writes'[p] = writes[p]
                 /\ UNCHANGED <<user_profiles, profile_history>>
          /\ pc[p] = "done" =>
                 (pc'[p] = "done" /\ reads'[p] = reads[p] /\ writes'[p] = writes[p]
                  /\ result'[p] = result[p])]_vars

\* the tool calls requested by the latest assistant message while the tools node runs
RequestedCalls ==
    IF node = "tools" THEN 1..Len(messages[Len(messages)].tool_calls) ELSE {}

\* C28: the tools node starts each requested call once and only requested calls, never
\* has two calls running at the same time, and returns one tool message per request,
\* with the request's call id, in the order of the requests.
C28_ToolsOneAfterAnother ==
    /\ [](tool_runs.started \subseteq RequestedCalls)
    /\ [](Cardinality(tool_runs.started \ tool_runs.finished) <= 1)
    /\ [][tool_runs.started' # tool_runs.started =>
              \/ tool_runs.started' = {}
              \/ \E k \in RequestedCalls \ tool_runs.started :
                    tool_runs.started' = tool_runs.started \cup {k}]_vars
    /\ [][NodeStep("tools") =>
              LET tool_calls == messages[Len(messages)].tool_calls
              IN  /\ tool_runs.started = RequestedCalls
                  /\ tool_runs.finished = RequestedCalls
                  /\ Len(messages') = Len(messages) + Len(tool_calls)
                  /\ SubSeq(messages', 1, Len(messages)) = messages
                  /\ \A k \in 1..Len(tool_calls) :
                        /\ messages'[Len(messages) + k].type = "tool"
                        /\ messages'[Len(messages) + k].tool_call_id = tool_calls[k].id]_vars

\* the same without the condition on calls running at the same time
C28_DispatchedOnceInOrder ==
    /\ [](tool_runs.started \subseteq RequestedCalls)
    /\ [][tool_runs.started' # tool_runs.started =>
              \/ tool_runs.started' = {}
              \/ \E k \in RequestedCalls \ tool_runs.started :
                    tool_runs.started' = tool_runs.started \cup {k}]_vars
    /\ [][NodeStep("tools") =>
              LET tool_calls == messages[Len(messages)].tool_calls
              IN  /\ tool_runs.started = RequestedCalls
                  /\ tool_runs.finished = RequestedCalls
                  /\ Len(messages') = Len(messages) + Len(tool_calls)
                  /\ \A k \in 1..Len(tool_calls) :
                        /\ messages'[Len(messages) + k].type = "tool"
                        /\ messages'[Len(messages) + k].tool_call_id = tool_calls[k].id]_vars

NonSystem(msgs) == SelectSeq(msgs, LAMBDA m : m.type # "system")

\* C29: the prompt of an agent step is the system message built from the profile stored
\* at that moment followed by the non-system messages of the history in their order,
\* with no other system message; the step appends the model's response to the history
\* and changes nothing else of it, the persisted history after the step is that history,
\* and the history never holds a system message.
C29_PromptIsSystemPlusHistory ==
    /\ [](\A k \in 1..Len(messages) : messages[k].type # "system")
    /\ [][NodeStep("agent") =>
              /\ prompt'[1].type = "system"
              /\ prompt'[1].user_document = Str(get_user_profile(user_profiles).doc)
              /\ \A k \in 2..Len(prompt') : prompt'[k].type # "system"
              /\ SubSeq(prompt', 2, Len(prompt')) = NonSystem(messages)
              /\ Len(messages') = Len(messages) + 1
              /\ SubSeq(messages', 1, Len(messages)) = messages
              /\ messages'[Len(messages')].type = "ai"
              /\ HistoryIn(checkpoints') = messages']_vars

C29_Witness ==
    /\ node = "check_memory"
    /\ rounds = 1
    /\ initial.present
    /\ user_profiles.version = initial.version + 1
    /\ prompt[1].user_document = WriterDoc(Writer)
    /\ Len(prompt) = Len(messages)
    /\ Len(messages) > SummarizeThreshold

\* C30: whatever the users query did, the agent step goes on to its next node without
\* an error, and the time of its system message is rendered in the stored zone when
\* that is a valid zone name and in UTC when the query raised, found no row, or found
\* no valid zone name.
C30_TimezoneFallsBackToUTC ==
    [][NodeStep("agent") =>
          /\ node' \in {"tools", "check_memory"}
          /\ run_result' = NotReturned
          /\ timezone_read' \in UsersAnswers
          /\ prompt'[1].current_time.zone \in ValidZones
          /\ prompt'[1].current_time.zone =
                 (IF /\ ~timezone_read'.raised
                     /\ timezone_read'.present
                     /\ timezone_read'.timezone \in ValidZones
                  THEN timezone_read'.timezone
                  ELSE "UTC")]_vars

C30_Witness ==
    /\ node = "check_memory"
    /\ timezone_read = UsersAnswer(FALSE, TRUE, "Mars/Phobos")
    /\ prompt[1].current_time.zone = "UTC"
    /\ messages[Len(messages)].type = "ai"

\* C31: every stored checkpoint that names a parent has a stored checkpoint with that
\* id in the same thread and namespace.
C31_ParentIsStored ==
    \A r \in checkpoints :
        r.parent_checkpoint_id # NoId =>
            \E o \in checkpoints :
                /\ o.thread_id = r.thread_id
                /\ o.checkpoint_ns = r.checkpoint_ns
                /\ o.checkpoint_id = r.parent_checkpoint_id

\* C32: a listing holds, newest first and cut at the limit, one tuple per stored
\* checkpoint of the thread, with the checkpoint and metadata that aget_tuple returns
\* for that checkpoint id.
C32_ListAgreesWithGet ==
    ckCall.op = "alist" =>
        LET config == ckCall.config
            rows == OrderDesc(Select(checkpoints, config.thread_id, config.checkpoint_ns))
            n == IF ckCall.limit # 0 /\ ckCall.limit < Len(rows) THEN ckCall.limit
                 ELSE Len(rows)
        IN  /\ Len(ckRet) = n
            /\ \A k \in 1..n :
                  LET got == aget_tuple(checkpoints,
                                        [config EXCEPT !.checkpoint_id = rows[k].checkpoint_id])
                  IN  /\ ckRet[k].config.checkpoint_id = rows[k].checkpoint_id
                      /\ ckRet[k].checkpoint = got.checkpoint
                      /\ ckRet[k].metadata = got.metadata

\* the stored row of a checkpoint id of the thread
RowOf(id) == CHOOSE r \in checkpoints : InThread(r) /\ r.checkpoint_id = id

\* both runs loaded the same stored checkpoint and have saved their first checkpoint
Forked ==
    /\ node # "idle" /\ concurrent_turn.puts # <<>>
    /\ loaded # None /\ concurrent_turn.loaded_id = LoadedId

\* every checkpoint either run handed to aput is stored, and the latest checkpoint of
\* the thread is the one with the highest id, holding the history of one run only
C33_NeitherWriteRejected ==
    (node # "idle" /\ concurrent_turn.puts # <<>>) =>
        /\ \A k \in 1..Len(puts) : \E r \in checkpoints : InThread(r) /\ r.checkpoint_id = puts[k]
        /\ \A k \in 1..Len(concurrent_turn.puts) :
              \E r \in checkpoints : InThread(r) /\ r.checkpoint_id = concurrent_turn.puts[k]
        /\ LET latest == aget_tuple(checkpoints, RunConfig)
           IN  /\ latest # None
               /\ \A r \in checkpoints : InThread(r) => r.checkpoint_id <= latest.checkpoint.id
               /\ \/ /\ latest.checkpoint.id = puts[Len(puts)]
                     /\ latest.checkpoint.messages = messages
                  \/ /\ latest.checkpoint.id = concurrent_turn.puts[Len(concurrent_turn.puts)]
                     /\ latest.checkpoint.messages = concurrent_turn.messages

\* C33: two runs on the same thread that loaded the same checkpoint both store their
\* checkpoints, their first checkpoints are siblings whose parent is the loaded
\* checkpoint, and the latest checkpoint of the thread is the one with the highest id,
\* holding the history of one run only.
C33_ForkOfSiblings ==
    /\ C33_NeitherWriteRejected
    /\ Forked =>
          /\ RowOf(puts[1]).parent_checkpoint_id = LoadedId
          /\ RowOf(concurrent_turn.puts[1]).parent_checkpoint_id = LoadedId

\* the callers that ran the update_profile tool
Appenders == {p \in Callers : kind[p] = "append"}

\* at most three update_profile calls and no other writer, on a row that existed
OnlyThreeAppenders ==
    /\ initial.present
    /\ \A p \in Callers : kind[p] \in {"none", "append"}
    /\ Cardinality(Appenders) <= 3

\* C34: with at most three update_profile calls on an existing row and no other writer,
\* no call reports high traffic, and once all of them have returned each has reported
\* success and the stored version is the start version plus their number.
C34_ThreeAppendersAllSucceed ==
    OnlyThreeAppenders =>
        /\ \A p \in Callers : result[p] # "contention"
        /\ (\A p \in Appenders : pc[p] = "done") =>
              /\ \A p \in Appenders : result[p] = "success"
              /\ user_profiles.version = initial.version + Cardinality(Appenders)

C34_Witness ==
    /\ OnlyThreeAppenders
    /\ Cardinality(Appenders) = 3
    /\ \A p \in Appenders : pc[p] = "done" /\ result[p] = "success"
    /\ \E p \in Appenders : attempt[p] = 2 /\ reads[p] = 3
    /\ user_profiles.version = initial.version + 3

\* an update_profile call stored its fact after the pass had read the profile: the
\* version it replaced is the one the pass read or a later one
AppendedDuringPass ==
    /\ sm.stage # "start"
    /\ kind[Writer] = "append"
    /\ \E w \in wins : w.caller = Writer /\ w.expected >= sm.version

\* C35: when an update_profile call stored its fact after the consolidation pass read
\* the profile and before the pass wrote, the pass does not rewrite the profile (its
\* update_user_document returns False when it is issued) and the stored document holds
\* the fact, during the pass and after it.
C35_AppendedFactSurvives ==
    AppendedDuringPass =>
        /\ sm.stage # "updated"
        /\ sm.stage \in {"skipped", "conflict"} =>
               (sm.stage = "conflict" <=> ~Contains(sm.new_profile_content, "NO_UPDATE"))
        /\ user_profiles.present
        /\ Contains(user_profiles.doc, Fact(Writer))

C35_Witness ==
    /\ AppendedDuringPass
    /\ node = "end"
    /\ sm.stage = "conflict"
    /\ sm.new_profile_content = <<"Consolidated profile">>
    /\ user_profiles.version = sm.version + 1
    /\ Contains(user_profiles.doc, Fact(Writer))

\* the number of messages the turn has added to the history it loaded: message ids
\* count the messages of the thread
Added == FreshId(messages) - 1 - StartLen

\* C36: a finished turn that loaded at most 75 messages and added at most 30 leaves a
\* history of at most 75 messages, in the channel and in the latest stored checkpoint.
C36_EndOfTurnWithinThreshold ==
    (node = "end" /\ StartLen <= 75 /\ Added <= 30) =>
        /\ Len(messages) <= 75
        /\ Len(PersistedHistory) <= 75

\* a turn that loaded 75 messages and added 30 ends on 75
C36_Witness ==
    /\ node = "end"
    /\ StartLen = 75
    /\ Added = 30
    /\ passes = 1
    /\ Len(messages) = 75
    /\ Len(PersistedHistory) = 75

\* the updates other callers stored after caller p had started
WinsOfOthersSince(p) == {w \in wins : w.caller # p /\ w.expected >= startVersion[p]}

\* C37: an update_profile call reports high traffic only when other writers stored at
\* least three updates while it ran, one for each of its attempts; a call that ran
\* alone never reports it.
C37_ContentionOnlyUnderConflicts ==
    \A p \in Callers :
        result[p] = "contention" => Cardinality(WinsOfOthersSince(p)) >= 3

\* the consolidation model's output holds the sentinel, alone or within other text
HoldsSentinel(content) == \E k \in 1..Len(content) : content[k] = "NO_UPDATE"

\* C38: when the consolidation model's output holds NO_UPDATE, the summarize step
\* issues no update_user_document call: the profile row and the profile history are
\* as they were before the step.
C38_SentinelSkipsUpdate ==
    [][(NodeStep("summarize") /\ HoldsSentinel(sm.new_profile_content)) =>
          /\ sm'.stage = "skipped"
          /\ UNCHANGED <<user_profiles, profile_history, wins>>]_vars

C38_Witness ==
    /\ node = "end"
    /\ sm.stage = "skipped"
    /\ sm.new_profile_content = <<"Consolidated profile", "NO_UPDATE">>
    /\ user_profiles = initial
    /\ user_profiles.present
    /\ profile_history = <<>>

\* the position of a node along the edges of the graph
Rank(n) ==
    CASE n = "idle" -> 0
      [] n \in {"agent", "tools"} -> 1
      [] n = "check_memory" -> 2
      [] n = "summarize" -> 3
      [] OTHER -> 4

\* C39: a turn that has started eventually is at its end or has failed; no step leads
\* back along the graph except from tools to agent; summarize runs at most once.
C39_TurnTerminates ==
    /\ (node # "idle") ~> (node \in {"end", "error"})
    /\ [][node' # node =>
              \/ Rank(node') > Rank(node)
              \/ node = "agent" /\ node' = "tools"
              \/ node = "tools" /\ node' = "agent"]_vars
    /\ [](passes <= 1)
    /\ [][(node = "end" \/ node = "error") =>
              (node' = node /\ messages' = messages /\ passes' = passes)]_vars

C39_Witness ==
    /\ node = "end"
    /\ rounds = MaxToolRounds
    /\ passes = 1
    /\ run_result.status = "returned"

====
